---- MODULE Spec2Model ----
(***************************************************************************)
(* Model of src/marquee.js: setupMarqueeAnimation / horizontalLoop (the    *)
(* seamless horizontal marquee loop), the playback of the timeline it      *)
(* builds, and the intro card's scroll onUpdate handler.                   *)
(*                                                                         *)
(* Numbers are JavaScript numbers modelled as exact rationals extended     *)
(* with NaN and +/-Infinity: <<n, d>> with d > 0 in lowest terms is n/d,   *)
(* <<0, 0>> is NaN, <<1, 0>> and <<-1, 0>> are +/-Infinity.  Division by   *)
(* zero, Infinity - Infinity and 0 * Infinity follow IEEE 754.  Rounding   *)
(* of binary floating point and the sign of zero are not modelled.         *)
(***************************************************************************)
EXTENDS Integers, Sequences, FiniteSets, TLC

VARIABLES
  dom,              \* the marquee's <h1> elements: layout and transform
  config,           \* the config object given to setupMarqueeAnimation
  calls,            \* how many times setupMarqueeAnimation has been called
  outcome,          \* what the first call produced
  tlCreated,        \* whether gsap.timeline was called
  plan,             \* the measurements and tweens of the first timeline
  time,             \* the first timeline's playhead within its iteration
  cycles,           \* iterations the first timeline has completed (capped)
  halted,           \* the first timeline has completed all its iterations
  played,           \* the first timeline has been advanced since it was built
  plan2,            \* the measurements and tweens of the second call
  contentRevealed,  \* introCard.contentRevealed
  cardStyle,        \* what onUpdate last set on the intro card's image and marquee
  content,          \* the targets of the last animateContent
  animLog,          \* the directions animateContent was called with, in order
  updates,          \* scroll updates delivered so far
  lastProgress      \* the progress of the last update

marqueeVars == <<dom, config, calls, outcome, tlCreated, plan, time, cycles,
                 halted, played, plan2>>

cardVars == <<contentRevealed, cardStyle, content, animLog, updates, lastProgress>>

vars == <<marqueeVars, cardVars>>

----------------------------------------------------------------------------
(* JavaScript number arithmetic *)

NaN == <<0, 0>>

PosInf == <<1, 0>>

NegInf == <<-1, 0>>

IsNaN(a) == a[1] = 0 /\ a[2] = 0

IsInf(a) == a[1] # 0 /\ a[2] = 0

IsFin(a) == a[2] # 0

Abs(n) == IF n < 0 THEN -n ELSE n

RECURSIVE Gcd(_, _)
Gcd(a, b) == IF b = 0 THEN a ELSE Gcd(b, a % b)

\* n/d in lowest terms with a positive denominator (d # 0)
Norm(n, d) ==
  LET g == Gcd(Abs(n), Abs(d))
      s == IF d < 0 THEN -1 ELSE 1
  IN <<(s * n) \div g, (s * d) \div g>>

Num(n) == <<n, 1>>

Sgn(a) == IF a[1] > 0 THEN 1 ELSE IF a[1] < 0 THEN -1 ELSE 0

Neg(a) == <<-a[1], a[2]>>

Add(a, b) ==
  IF IsNaN(a) \/ IsNaN(b) THEN NaN
  ELSE IF IsInf(a) /\ IsInf(b) THEN (IF a = b THEN a ELSE NaN)
  ELSE IF IsInf(a) THEN a
  ELSE IF IsInf(b) THEN b
  ELSE Norm(a[1] * b[2] + b[1] * a[2], a[2] * b[2])

Sub(a, b) == Add(a, Neg(b))

Mul(a, b) ==
  IF IsNaN(a) \/ IsNaN(b) THEN NaN
  ELSE IF IsInf(a) \/ IsInf(b)
       THEN (IF Sgn(a) * Sgn(b) = 0 THEN NaN ELSE <<Sgn(a) * Sgn(b), 0>>)
  ELSE Norm(a[1] * b[1], a[2] * b[2])

Div(a, b) ==
  IF IsNaN(a) \/ IsNaN(b) THEN NaN
  ELSE IF IsInf(a) /\ IsInf(b) THEN NaN
  ELSE IF IsInf(a) THEN <<Sgn(a) * (IF Sgn(b) < 0 THEN -1 ELSE 1), 0>>
  ELSE IF IsInf(b) THEN Num(0)
  ELSE IF b[1] = 0 THEN (IF a[1] = 0 THEN NaN ELSE <<Sgn(a), 0>>)
  ELSE Norm(a[1] * b[2], a[2] * b[1])

\* a < b, false when either side is NaN
Lt(a, b) ==
  /\ ~IsNaN(a) /\ ~IsNaN(b)
  /\ a # b
  /\ IF IsInf(a) THEN a = NegInf
     ELSE IF IsInf(b) THEN b = PosInf
     ELSE a[1] * b[2] < b[1] * a[2]

Le(a, b) == ~IsNaN(a) /\ ~IsNaN(b) /\ (a = b \/ Lt(a, b))

----------------------------------------------------------------------------
(* JavaScript values read from the configuration object and from          *)
(* gsap.getProperty: undefined, a number, or a string whose numeric       *)
(* prefix is v (NaN when the string has none).                             *)

Undefined == [t |-> "undefined", v |-> NaN]

NumberVal(a) == [t |-> "number", v |-> a]

\* e.g. "100px": PxString(Num(100))
PxString(a) == [t |-> "string", v |-> a]

\* parseFloat: the numeric prefix of the value's string form, NaN if none
ParseFloat(val) == IF val.t = "undefined" THEN NaN ELSE val.v

\* a ?? b
Nullish(a, b) == IF a.t = "undefined" THEN b ELSE a

\* a || b for a number-or-undefined a and a number b
OrElse(a, b) ==
  IF a.t = "undefined" \/ a.v = Num(0) \/ IsNaN(a.v) THEN b ELSE a.v

----------------------------------------------------------------------------
(* The marquee elements and the inputs the model draws *)

MaxItems == 2

MaxCycles == 5

MaxUpdates == 8

BaseRate == 100

DefaultRepeat == -1

DefaultPaddingRight == 30

DefaultSpeed == 1

Element(ow, w, x, xp, sx) ==
  [offsetLeft |-> 0, offsetWidth |-> ow, width |-> Num(w), x |-> Num(x),
   xPercent |-> Num(xp), scaleX |-> Num(sx)]

\* the kinds of <h1> the marquee may hold: plain items of several widths,
\* collapsed (zero width) items with and without a pixel offset, an item
\* with padding and a pre-existing transform, and a scaled item
ItemKinds ==
  { Element(100, 100, 0, 0, 1),
    Element(200, 200, 0, 0, 1),
    Element(50, 50, 0, 0, 1),
    Element(0, 0, 0, 0, 1),
    Element(0, 0, 10, 0, 1),
    Element(100, 96, -24, -50, 1),
    Element(100, 100, 0, 0, 2) }

Gaps == {0, 5}

FirstLeft == 8

RECURSIVE LeftOf(_, _, _)
\* offsetLeft of item i when the items follow each other with the given gap
LeftOf(items, gap, i) ==
  IF i = 1 THEN FirstLeft
  ELSE LeftOf(items, gap, i - 1) + items[i - 1].offsetWidth + gap

Layout(items, gap) ==
  [i \in 1..Len(items) |-> [items[i] EXCEPT !.offsetLeft = LeftOf(items, gap, i)]]

ItemSeqs == UNION { [1..n -> ItemKinds] : n \in 0..MaxItems }

Doms == { Layout(items, gap) : items \in ItemSeqs, gap \in Gaps }

SpeedInputs == { Undefined, NumberVal(Num(-1)), NumberVal(Num(0)), NumberVal(Num(2)) }

PaddingInputs == { Undefined, NumberVal(Num(-40)), PxString(Num(10)) }

RepeatInputs == { Undefined, NumberVal(Num(3)) }

Configs == [speed : SpeedInputs, paddingRight : PaddingInputs, repeat : RepeatInputs]

NoConfig == [speed |-> Undefined, paddingRight |-> Undefined, repeat |-> Undefined]

----------------------------------------------------------------------------
(* horizontalLoop *)

NoPlan ==
  [widths |-> <<>>, xPercents |-> <<>>, totalWidth |-> NaN,
   pixelsPerSecond |-> NaN, repeat |-> NaN, segs |-> <<>>]

\* the fromTo tween rendering its "from" value as soon as it is created
ImmediateRenderDefault == TRUE

\* immediateRender of the fromTo tween
ImmediateRender == FALSE

\* pixelsPerSecond = (config.speed || 1) * 100
PixelsPerSecond(cfg) == Mul(OrElse(cfg.speed, Num(DefaultSpeed)), Num(BaseRate))

\* widths[i] = parseFloat(gsap.getProperty(el, "width", "px"))
MeasureWidth(el) == ParseFloat(PxString(el.width))

\* xPercents[i] = parseFloat(gsap.getProperty(el, "x", "px")) / w * 100
\*                + gsap.getProperty(el, "xPercent")
MeasureXPercent(el) ==
  Add(Mul(Div(ParseFloat(PxString(el.x)), MeasureWidth(el)), Num(100)), el.xPercent)

\* the two gsap.set calls: xPercent takes the measured value, x is reset
Measured(items) ==
  [i \in 1..Len(items) |->
     [items[i] EXCEPT !.xPercent = MeasureXPercent(items[i]), !.x = Num(0)]]

\* startX = items[0].offsetLeft
StartX(items) == Num(items[1].offsetLeft)

\* parseFloat(config.paddingRight) || 0
PaddingRight(cfg) ==
  OrElse(NumberVal(ParseFloat(cfg.paddingRight)), Num(0))

TotalWidth(items, widths, xPercents, cfg) ==
  LET n == Len(items)
      last == items[n]
  IN Add(Add(Sub(Add(Num(last.offsetLeft),
                     Mul(Div(xPercents[n], Num(100)), widths[n])),
                 StartX(items)),
             Mul(Num(last.offsetWidth), last.scaleX)),
         PaddingRight(cfg))

CurX(widths, xPercents, i) == Mul(Div(xPercents[i], Num(100)), widths[i])

DistanceToStart(items, widths, xPercents, i) ==
  Sub(Add(Num(items[i].offsetLeft), CurX(widths, xPercents, i)), StartX(items))

DistanceToLoop(items, widths, xPercents, i) ==
  Add(DistanceToStart(items, widths, xPercents, i),
      Mul(widths[i], items[i].scaleX))

\* Segment with the wrap distance taken per item (totalWidth plus the item's
\* own width) instead of the shared totalWidth
SegmentOwnWrap(items, widths, xPercents, totalWidth, pps, i) ==
  LET curX == CurX(widths, xPercents, i)
      dtl == DistanceToLoop(items, widths, xPercents, i)
      wrap == Add(totalWidth, widths[i])
  IN [toX |-> Mul(Div(Sub(curX, dtl), widths[i]), Num(100)),
      toDur |-> Div(dtl, pps),
      fromX |-> Mul(Div(Add(Sub(curX, dtl), wrap), widths[i]), Num(100)),
      backX |-> xPercents[i],
      backDur |-> Div(Sub(Add(Sub(curX, dtl), wrap), curX), pps),
      backAt |-> Div(dtl, pps),
      toStart |-> xPercents[i]]

\* the tl.to(...).fromTo(...) pair of item i; toStart is the value the "to"
\* tween starts from, which it reads from the element when it first renders
Segment(items, widths, xPercents, totalWidth, pps, i) ==
  LET curX == CurX(widths, xPercents, i)
      dtl == DistanceToLoop(items, widths, xPercents, i)
  IN [toX |-> Mul(Div(Sub(curX, dtl), widths[i]), Num(100)),
      toDur |-> Div(dtl, pps),
      fromX |-> Mul(Div(Add(Sub(curX, dtl), totalWidth), widths[i]), Num(100)),
      backX |-> xPercents[i],
      backDur |-> Div(Sub(Add(Sub(curX, dtl), totalWidth), curX), pps),
      backAt |-> Div(dtl, pps),
      toStart |-> IF ImmediateRender
                  THEN Mul(Div(Add(Sub(curX, dtl), totalWidth), widths[i]), Num(100))
                  ELSE xPercents[i]]

\* tl.progress(1, true).progress(0, true): every item is left where its
\* "to" tween starts
Stabilized(items, segs) ==
  [i \in 1..Len(items) |-> [items[i] EXCEPT !.xPercent = segs[i].toStart]]

HorizontalLoop(items, cfg) ==
  IF Len(items) = 0
  THEN \* items[0].offsetLeft of an empty array throws, after gsap.timeline
       [outcome |-> "TypeError", tlCreated |-> TRUE, dom |-> items, plan |-> NoPlan]
  ELSE
    LET idx == 1..Len(items)
        widths == [i \in idx |-> MeasureWidth(items[i])]
        xPercents == [i \in idx |-> MeasureXPercent(items[i])]
        measured == Measured(items)
        pps == PixelsPerSecond(cfg)
        totalWidth == TotalWidth(measured, widths, xPercents, cfg)
        segs == [i \in idx |->
                   Segment(measured, widths, xPercents, totalWidth, pps, i)]
    IN [outcome |-> "timeline", tlCreated |-> TRUE,
        dom |-> Stabilized(measured, segs),
        plan |-> [widths |-> widths, xPercents |-> xPercents,
                  totalWidth |-> totalWidth, pixelsPerSecond |-> pps,
                  repeat |-> cfg.repeat.v, segs |-> segs]]

\* setupMarqueeAnimation without its guard
HasItemsUnguarded(items) == TRUE

\* the guard of setupMarqueeAnimation
HasItems(items) == Len(items) > 0

\* the options setupMarqueeAnimation hands to horizontalLoop
Options(cfg) ==
  [repeat |-> Nullish(cfg.repeat, NumberVal(Num(DefaultRepeat))),
   paddingRight |-> Nullish(cfg.paddingRight, NumberVal(Num(DefaultPaddingRight))),
   speed |-> Nullish(cfg.speed, NumberVal(Num(DefaultSpeed)))]

SetupResult(items, cfg) ==
  IF HasItems(items)
  THEN HorizontalLoop(items, Options(cfg))
  ELSE [outcome |-> "undefined", tlCreated |-> FALSE, dom |-> items, plan |-> NoPlan]

----------------------------------------------------------------------------
(* Playback of the timeline by the GSAP ticker *)

Min(a, b) == IF a < b THEN a ELSE b

RECURSIVE MaxEnd(_, _)
MaxEnd(segs, n) ==
  IF n = 0 THEN Num(0)
  ELSE LET e == Add(segs[n].backAt, segs[n].backDur)
           m == MaxEnd(segs, n - 1)
       IN IF Lt(m, e) THEN e ELSE m

\* the duration of one iteration: the latest end of the timeline's tweens
CycleDuration(p) == MaxEnd(p.segs, Len(p.segs))

\* playback is modelled for timelines whose tweens have finite values,
\* a positive exit duration and a non-negative re-entry duration
Playable(p) ==
  /\ Len(p.segs) > 0
  /\ \A i \in 1..Len(p.segs) :
       LET g == p.segs[i]
       IN /\ IsFin(g.toX) /\ IsFin(g.fromX) /\ IsFin(g.backX) /\ IsFin(g.toStart)
          /\ IsFin(g.toDur) /\ Lt(Num(0), g.toDur)
          /\ IsFin(g.backDur) /\ Le(Num(0), g.backDur)

\* ease "none"
Lerp(a, b, r) == Add(a, Mul(Sub(b, a), r))

\* xPercent of item i with the playhead at t: the "to" tween until the
\* fromTo tween starts, the fromTo tween from then on
Render(p, i, t) ==
  LET g == p.segs[i]
  IN IF Lt(t, g.backAt) THEN Lerp(g.toStart, g.toX, Div(t, g.toDur))
     ELSE IF g.backDur = Num(0) THEN g.backX
     ELSE Lerp(g.fromX, g.backX, Div(Sub(t, g.backAt), g.backDur))

RenderAll(items, p, t) ==
  [i \in 1..Len(items) |-> [items[i] EXCEPT !.xPercent = Render(p, i, t)]]

\* the playhead positions the model visits: the start of every re-entry,
\* the middle of the first item's exit, and the end of the iteration
KeyTimes(p) ==
  IF Len(p.segs) = 0 THEN {}
  ELSE { p.segs[i].backAt : i \in 1..Len(p.segs) }
         \cup { Div(p.segs[1].backAt, Num(2)), CycleDuration(p) }

\* repeat read as the total number of iterations
RepeatsAgainAsTotal(repeat, done) == Lt(repeat, Num(0)) \/ Lt(Num(done), repeat)

\* gsap.timeline({repeat}): after `done` completed iterations another one
\* follows when repeat is negative (forever) or done <= repeat
RepeatsAgain(repeat, done) == Lt(repeat, Num(0)) \/ Le(Num(done), repeat)

----------------------------------------------------------------------------
(* The intro card's ScrollTrigger onUpdate and animateContent *)

ProgressSteps == 4

Half == <<1, 2>>

NoStyle == [imgScale |-> NaN, borderRadius |-> NaN, innerImgScale |-> NaN,
            marqueeOpacity |-> NaN]

NoContent == [x |-> "", descX |-> "", opacity |-> NaN]

\* the targets animateContent animates to
AnimateContent(direction) ==
  [x |-> IF direction = "in" THEN "0%" ELSE "100%",
   descX |-> IF direction = "in" THEN "0" ELSE "40px",
   opacity |-> IF direction = "in" THEN Num(1) ELSE Num(0)]

CardStyle(progress) ==
  LET imgScale == Add(Half, Mul(progress, Half))
  IN [imgScale |-> imgScale,
      borderRadius |-> Sub(Num(400), Mul(progress, Num(375))),
      innerImgScale |-> Sub(<<3, 2>>, Mul(progress, Half)),
      marqueeOpacity |->
        IF Le(Half, imgScale) /\ Le(imgScale, <<3, 4>>)
        THEN Sub(Num(1), Div(Sub(imgScale, Half), <<1, 4>>))
        ELSE IF Lt(imgScale, Half) THEN Num(1) ELSE Num(0)]

\* progress >= 1 && !introCard.contentRevealed
RevealsNow(progress, revealed) == Le(Num(1), progress) /\ revealed # "true"

\* the hide branch without its contentRevealed test
HidesNowUnlatched(progress, revealed) == Lt(progress, Num(1))

\* progress < 1 && introCard.contentRevealed
HidesNow(progress, revealed) == Lt(progress, Num(1)) /\ revealed = "true"

----------------------------------------------------------------------------
(* The state machine *)

InitMarquee ==
  /\ config = NoConfig
  /\ calls = 0
  /\ outcome = "pending"
  /\ tlCreated = FALSE
  /\ plan = NoPlan
  /\ time = Num(0)
  /\ cycles = 0
  /\ halted = FALSE
  /\ played = FALSE
  /\ plan2 = NoPlan

InitCard ==
  /\ contentRevealed = "undefined"
  /\ cardStyle = NoStyle
  /\ content = NoContent
  /\ animLog = <<>>
  /\ updates = 0
  /\ lastProgress = Num(0)

Init == dom \in Doms /\ InitMarquee /\ InitCard

\* setupMarqueeAnimation(cfg), first call
SetupMarqueeAnimation ==
  /\ calls = 0
  /\ \E cfg \in Configs :
       \E r \in {SetupResult(dom, cfg)} :
          /\ config' = cfg
          /\ outcome' = r.outcome
          /\ tlCreated' = r.tlCreated
          /\ dom' = r.dom
          /\ plan' = r.plan
  /\ calls' = 1
  /\ UNCHANGED <<time, cycles, halted, played, plan2>>
  /\ UNCHANGED cardVars

\* the ticker can move the first timeline's playhead forward to t
CanRenderAt(t) ==
  /\ calls = 1
  /\ outcome = "timeline"
  /\ Playable(plan)
  /\ ~halted
  /\ t \in KeyTimes(plan)
  /\ Lt(time, t)

\* one render of the first timeline by the ticker, moving the playhead
\* forward to a later position of the current iteration
Tick ==
  /\ \E t \in KeyTimes(plan) :
       /\ CanRenderAt(t)
       /\ IF t = CycleDuration(plan)
          THEN /\ cycles' = Min(cycles + 1, MaxCycles)
               /\ IF RepeatsAgain(plan.repeat, cycles + 1)
                  THEN /\ time' = Num(0)
                       /\ dom' = RenderAll(dom, plan, Num(0))
                       /\ halted' = FALSE
                  ELSE /\ time' = t
                       /\ dom' = RenderAll(dom, plan, t)
                       /\ halted' = TRUE
          ELSE /\ time' = t
               /\ dom' = RenderAll(dom, plan, t)
               /\ UNCHANGED <<cycles, halted>>
  /\ played' = TRUE
  /\ UNCHANGED <<config, calls, outcome, tlCreated, plan, plan2>>
  /\ UNCHANGED cardVars

\* setupMarqueeAnimation(config) called again on the same elements
Rebuild ==
  /\ calls = 1
  /\ \E r \in {SetupResult(dom, config)} :
        /\ dom' = r.dom
        /\ plan2' = r.plan
  /\ calls' = 2
  /\ UNCHANGED <<config, outcome, tlCreated, plan, time, cycles, halted, played>>
  /\ UNCHANGED cardVars

\* ScrollTrigger onUpdate({progress}) of the intro card
OnUpdate ==
  /\ updates < MaxUpdates
  /\ \E k \in 0..ProgressSteps :
       LET progress == Div(Num(k), Num(ProgressSteps))
           reveal == RevealsNow(progress, contentRevealed)
           afterReveal == IF reveal THEN "true" ELSE contentRevealed
           hide == HidesNow(progress, afterReveal)
       IN /\ cardStyle' = CardStyle(progress)
          /\ contentRevealed' = IF hide THEN "false" ELSE afterReveal
          /\ animLog' = animLog \o (IF reveal THEN <<"in">> ELSE <<>>)
                                \o (IF hide THEN <<"out">> ELSE <<>>)
          /\ content' = IF hide THEN AnimateContent("out")
                        ELSE IF reveal THEN AnimateContent("in")
                        ELSE content
          /\ lastProgress' = progress
  /\ updates' = updates + 1
  /\ UNCHANGED marqueeVars

Next == SetupMarqueeAnimation \/ Tick \/ Rebuild

Spec == Init /\ [][Next]_vars

\* the page with an empty marquee, scrolled
InitPage == dom = <<>> /\ InitMarquee /\ InitCard

NextPage == OnUpdate

SpecCard == InitPage /\ [][NextPage]_vars

----------------------------------------------------------------------------
(* Properties *)

Built == calls >= 1 /\ outcome = "timeline"

Items == 1..Len(dom)

\* the speed and padding options as configured (defaults filled in)
SpeedOption == Options(config).speed.v

PaddingOption == ParseFloat(Options(config).paddingRight)

\* totalWidth as a percentage of item i's own width
TotalPercent(p, i) == Mul(Div(p.totalWidth, p.widths[i]), Num(100))

\* C1 (continuity): in every built loop, every item's re-entry "from"
\* xPercent equals its exit xPercent plus the one shared totalWidth taken
\* as a percentage of the item's own width.
C1_Continuity ==
  /\ Built =>
       \A i \in Items :
         plan.segs[i].fromX = Add(plan.segs[i].toX, TotalPercent(plan, i))
  /\ (Built /\ calls = 2) =>
       \A i \in Items :
         plan2.segs[i].fromX = Add(plan2.segs[i].toX, TotalPercent(plan2, i))

C1_Witness ==
  /\ Built /\ Len(dom) = 2 /\ Playable(plan)
  /\ plan.widths[1] # plan.widths[2]
  /\ \A i \in Items : plan.segs[i].fromX # plan.segs[i].toX

\* C2 (duration conservation): for every item of a built loop the exit
\* duration plus the re-entry duration equals totalWidth / (speed * 100),
\* and the re-entry starts when the exit, which starts at 0, ends.
C2_DurationConservation ==
  Built =>
    \A i \in Items :
      /\ Add(plan.segs[i].toDur, plan.segs[i].backDur)
           = Div(plan.totalWidth, Mul(SpeedOption, Num(BaseRate)))
      /\ plan.segs[i].backAt = plan.segs[i].toDur

\* C3 as stated (repeat bound): a timeline built with repeat 3 halts after
\* exactly 3 completed cycles; one built with repeat -1 never halts.
C3_ThreeCycles ==
  Built =>
    /\ plan.repeat = Num(3) => (cycles <= 3 /\ (halted => cycles = 3))
    /\ plan.repeat = Num(-1) => ~halted

\* C3 as amended: a timeline built with repeat 3 plays its first cycle and
\* 3 repeats, halting after exactly 4 completed cycles; one built with
\* repeat -1 never halts, and while it is played another render is possible.
C3_RepeatBound ==
  Built =>
    /\ plan.repeat = Num(3) => (cycles <= 4 /\ (halted <=> cycles = 4))
    /\ plan.repeat = Num(-1) =>
         /\ ~halted
         /\ (calls = 1 /\ Playable(plan)) =>
              \E t \in KeyTimes(plan) : CanRenderAt(t)

C3_Witness == Built /\ plan.repeat = Num(3) /\ halted /\ cycles = 4

C3_WitnessForever == Built /\ plan.repeat = Num(-1) /\ cycles = MaxCycles

\* C4 (empty input): with no items the builder creates no timeline,
\* schedules no tweens, returns undefined and throws nothing.
C4_EmptyNoOp ==
  (calls >= 1 /\ Len(dom) = 0) =>
    /\ outcome = "undefined"
    /\ ~tlCreated
    /\ plan = NoPlan
    /\ plan2 = NoPlan

C4_Witness == calls = 2 /\ Len(dom) = 0 /\ outcome = "undefined"

InvalidConfiguration ==
  Le(SpeedOption, Num(0)) \/ Lt(PaddingOption, Num(0))

\* C5 (invalid configuration): a build requested with speed <= 0 or with
\* negative paddingRight ends in an InvalidConfiguration error and yields
\* no timeline.
C5_InvalidConfigurationRejected ==
  (calls >= 1 /\ Len(dom) > 0 /\ InvalidConfiguration) =>
    outcome = "InvalidConfiguration"

\* C6 (degenerate geometry): a build over items one of which has measured
\* width zero ends in a DegenerateGeometryError and schedules no tweens.
C6_DegenerateGeometryRejected ==
  (calls >= 1 /\ \E i \in Items : MeasureWidth(dom[i]) = Num(0)) =>
    outcome = "DegenerateGeometryError"

\* C7 (deferred re-entry): while the playhead is before an item's re-entry
\* start the item is on its exit path from its measured xPercent, and with
\* the playhead at 0, as when the builder returns, every item is at its
\* measured xPercent.
C7_DeferredReentry ==
  /\ (Built /\ calls = 1) =>
       \A i \in Items :
         /\ time = Num(0) => dom[i].xPercent = plan.xPercents[i]
         /\ (Playable(plan) /\ Lt(time, plan.segs[i].backAt)) =>
              dom[i].xPercent =
                Lerp(plan.xPercents[i], plan.segs[i].toX,
                     Div(time, plan.segs[i].toDur))
  /\ (Built /\ calls = 2) =>
       \A i \in Items : dom[i].xPercent = plan2.xPercents[i]

C7_Witness ==
  /\ Built /\ calls = 1 /\ played /\ Playable(plan)
  /\ \E i \in Items :
       /\ Lt(Num(0), time) /\ Lt(time, plan.segs[i].backAt)
       /\ plan.segs[i].fromX # plan.xPercents[i]
       /\ dom[i].xPercent # plan.segs[i].fromX

C7_WitnessAtReturn ==
  /\ Built /\ calls = 1 /\ ~played /\ Playable(plan)
  /\ \A i \in Items : plan.segs[i].fromX # plan.xPercents[i]

RECURSIVE SumOffsetWidths(_, _)
SumOffsetWidths(items, n) ==
  IF n = 0 THEN 0 ELSE SumOffsetWidths(items, n - 1) + items[n].offsetWidth

\* the items follow each other without gaps, are not displaced and not scaled
Contiguous ==
  /\ \A i \in Items :
       /\ plan.xPercents[i] = Num(0) \/ IsNaN(plan.xPercents[i])
       /\ dom[i].scaleX = Num(1)
  /\ \A i \in Items \ {1} :
       dom[i].offsetLeft = dom[i - 1].offsetLeft + dom[i - 1].offsetWidth

\* C8 (total span): for contiguous, undisplaced, unscaled items totalWidth
\* is the sum of the item widths plus paddingRight, and every item's cycle
\* lasts that sum divided by speed * 100.
C8_TotalSpan ==
  (Built /\ Contiguous) =>
    LET span == Add(Num(SumOffsetWidths(dom, Len(dom))), PaddingOption)
    IN /\ plan.totalWidth = span
       /\ \A i \in Items :
            Add(plan.segs[i].toDur, plan.segs[i].backDur)
              = Div(span, Mul(SpeedOption, Num(BaseRate)))

\* C9 (idempotent rebuild): a second call on the same items with the same
\* options, made once the first has returned and before its timeline has
\* moved them, schedules tweens identical to the first call's.
C9_IdempotentRebuild ==
  (Built /\ calls = 2 /\ ~played) => plan2.segs = plan.segs

Odd(j) == j % 2 = 1

\* C10 (reveal toggle): the directions animateContent is called with by the
\* intro card's onUpdate alternate beginning with "in", every update calls
\* it at most once, and after every update contentRevealed is true exactly
\* when the update's progress was >= 1.
C10_RevealToggle ==
  /\ [](/\ \A j \in 1..Len(animLog) :
             animLog[j] = IF Odd(j) THEN "in" ELSE "out"
        /\ updates > 0 => (contentRevealed = "true" <=> Le(Num(1), lastProgress)))
  /\ [][Len(animLog') <= Len(animLog) + 1]_vars

C10_Witness ==
  Len(animLog) >= 3 /\ contentRevealed = "true" /\ Lt(Num(0), lastProgress)

====
